---------------------------- MODULE Spec2Model ----------------------------
(***************************************************************************)
(* Model of the BhashaConnect resource routers: schemes and jobs           *)
(* (src/backend/routes/schemes.js), training and marketplace               *)
(* (src/backend/routes/training.js), with the mongoose models they store   *)
(* into (src/backend/models/Scheme.js, src/backend/models/                 *)
(* TrainingContent.js, src/unnamed/part_000).                              *)
(*                                                                         *)
(* Strings are sequences of one-character strings, so that lengths,        *)
(* patterns, lower-casing and substring matches are computed, not assumed. *)
(***************************************************************************)
EXTENDS Integers, Sequences, FiniteSets, TLC

(***************************************************************************)
(* Bounds of the model.                                                    *)
(***************************************************************************)
\* ObjectIds the storage layer hands out during a run: 1..MaxId.
MaxId == 2
\* List is asked for pages 1..MaxPage with limits 1..MaxLimit.
MaxPage == 2
MaxLimit == 2

(***************************************************************************)
(* Characters and strings.                                                 *)
(***************************************************************************)
Lower == {"a","b","c","d","e","f","g","h","i","j","k","l","m",
          "n","o","p","q","r","s","t","u","v","w","x","y","z"}
Upper == {"A","B","C","D","E","F","G","H","I","J","K","L","M",
          "N","O","P","Q","R","S","T","U","V","W","X","Y","Z"}
Digit == {"0","1","2","3","4","5","6","7","8","9"}
Alpha == Lower \cup Upper
\* The regular expression class \w.
WordChar == Alpha \cup Digit \cup {"_"}

LowerOf ==
  [c \in Upper |->
     CASE c = "A" -> "a" [] c = "B" -> "b" [] c = "C" -> "c" [] c = "D" -> "d"
       [] c = "E" -> "e" [] c = "F" -> "f" [] c = "G" -> "g" [] c = "H" -> "h"
       [] c = "I" -> "i" [] c = "J" -> "j" [] c = "K" -> "k" [] c = "L" -> "l"
       [] c = "M" -> "m" [] c = "N" -> "n" [] c = "O" -> "o" [] c = "P" -> "p"
       [] c = "Q" -> "q" [] c = "R" -> "r" [] c = "S" -> "s" [] c = "T" -> "t"
       [] c = "U" -> "u" [] c = "V" -> "v" [] c = "W" -> "w" [] c = "X" -> "x"
       [] c = "Y" -> "y" [] c = "Z" -> "z"]

ToLowerChar(c) == IF c \in Upper THEN LowerOf[c] ELSE c

\* String.prototype.toLowerCase, as the mongoose `lowercase: true` setter applies it.
ToLower(s) == [i \in 1..Len(s) |-> ToLowerChar(s[i])]

StartsWith(s, p) == Len(p) <= Len(s) /\ SubSeq(s, 1, Len(p)) = p

\* One pattern character against one subject character: "." matches any
\* character, any other character matches itself; with the i option the
\* comparison ignores case.
CharMatches(pc, c) == pc = "." \/ ToLowerChar(pc) = ToLowerChar(c)

\* { $regex: pattern, $options: 'i' }: the pattern, unanchored, matches
\* somewhere in s.
RegexMatchI(pattern, s) ==
  \E k \in 0..(Len(s) - Len(pattern)) :
    \A i \in 1..Len(pattern) : CharMatches(pattern[i], s[k + i])


(***************************************************************************)
(* String formats of the two validation layers.                            *)
(***************************************************************************)
\* Joi.string().uri(): an RFC 3986 URI, scheme ":" hier-part; any scheme.
SchemeChar == Alpha \cup Digit \cup {"+", "-", "."}
IsUri(s) ==
  \E i \in 2..Len(s) :
    /\ s[i] = ":"
    /\ s[1] \in Alpha
    /\ \A j \in 2..(i - 1) : s[j] \in SchemeChar
    /\ \A j \in (i + 1)..Len(s) : s[j] # " "

\* /^https?:\/\/.+/ of the mongoose link and url paths.
MatchesHttpUrl(s) ==
  \/ /\ StartsWith(s, <<"h","t","t","p",":","/","/">>)
     /\ Len(s) > 7
  \/ /\ StartsWith(s, <<"h","t","t","p","s",":","/","/">>)
     /\ Len(s) > 8

\* /^[\+]?[1-9][\d]{0,15}$/, shared by the Joi and the mongoose phone rules.
MatchesPhone(s) ==
  LET t == IF s # <<>> /\ s[1] = "+" THEN Tail(s) ELSE s
  IN  /\ Len(t) \in 1..16
      /\ t[1] \in Digit \ {"0"}
      /\ \A i \in 2..Len(t) : t[i] \in Digit

\* \w+([.-]?\w+)* matched against the whole of s.
WordRuns(s) ==
  /\ Len(s) >= 1
  /\ s[1] \in WordChar
  /\ s[Len(s)] \in WordChar
  /\ \A i \in 1..Len(s) : s[i] \in WordChar \cup {".", "-"}
  /\ \A i \in 1..(Len(s) - 1) : ~(s[i] \in {".", "-"} /\ s[i + 1] \in {".", "-"})

\* (\.\w{2,3})+ matched against the whole of s.
TldGroups(s) ==
  /\ Len(s) >= 1
  /\ s[1] = "."
  /\ \A i \in 1..Len(s) : s[i] \in WordChar \cup {"."}
  /\ \A d \in {i \in 1..Len(s) : s[i] = "."} :
       LET after == {i \in (d + 1)..Len(s) : s[i] = "."}
           next  == IF after = {} THEN Len(s) + 1
                    ELSE CHOOSE i \in after : \A j \in after : i <= j
       IN  next - d - 1 \in {2, 3}

\* /^\w+([.-]?\w+)*@\w+([.-]?\w+)*(\.\w{2,3})+$/ of the mongoose contact.email path.
MatchesModelEmail(s) ==
  \E a \in 1..Len(s) :
    /\ s[a] = "@"
    /\ WordRuns(SubSeq(s, 1, a - 1))
    /\ \E k \in (a + 1)..Len(s) :
         /\ WordRuns(SubSeq(s, a + 1, k))
         /\ TldGroups(SubSeq(s, k + 1, Len(s)))

\* Top-level domains the Joi e-mail rule accepts (its built-in IANA list,
\* restricted to the ones the payloads of this model use).
Tlds == { <<"c","o","m">>, <<"i","o">>, <<"o","r","g">>, <<"i","n">> }
LocalChar == WordChar \cup {".", "-", "+"}
LabelChar == Alpha \cup Digit \cup {"-"}

\* Joi.string().email(): one "@", a dot-atom local part, a domain of at
\* least two labels whose last one is a known top-level domain.
IsJoiEmail(s) ==
  \E a \in 2..(Len(s) - 1) :
    LET local  == SubSeq(s, 1, a - 1)
        domain == SubSeq(s, a + 1, Len(s))
        dots   == {i \in 1..Len(domain) : domain[i] = "."}
    IN  /\ s[a] = "@"
        /\ \A i \in 1..Len(local) : local[i] \in LocalChar
        /\ local[1] # "." /\ local[Len(local)] # "."
        /\ \A i \in 1..(Len(local) - 1) : ~(local[i] = "." /\ local[i + 1] = ".")
        /\ \A i \in 1..Len(domain) : domain[i] \in LabelChar \cup {"."}
        /\ dots # {}
        /\ domain[1] \notin {".", "-"} /\ domain[Len(domain)] \notin {".", "-"}
        /\ \A i \in 1..(Len(domain) - 1) :
             ~(domain[i] \in {".", "-"} /\ domain[i + 1] = ".")
             /\ ~(domain[i] = "." /\ domain[i + 1] = "-")
        /\ LET last == CHOOSE i \in dots : \A j \in dots : j <= i
           IN  ToLower(SubSeq(domain, last + 1, Len(domain))) \in Tlds

(***************************************************************************)
(* Joi: a schema is a sequence of key rules in the order the source lists  *)
(* them.  A rule has key, label (the path a message names), required, and  *)
(* where the source sets them min, max, fmt, valid, or object (the rules   *)
(* of a nested Joi.object).                                                *)
(***************************************************************************)
JoiFormatOk(fmt, v) ==
  CASE fmt = "uri"   -> IsUri(v)
    [] fmt = "email" -> IsJoiEmail(v)
    [] fmt = "phone" -> MatchesPhone(v)

\* The first rule of a Joi.string() chain that v breaks, or "ok".
JoiStringType(rule, v) ==
  IF v = <<>> THEN "string.empty"
  ELSE IF "min" \in DOMAIN rule /\ Len(v) < rule.min THEN "string.min"
  ELSE IF "max" \in DOMAIN rule /\ Len(v) > rule.max THEN "string.max"
  ELSE IF "valid" \in DOMAIN rule /\ v \notin rule.valid THEN "any.only"
  ELSE IF "fmt" \in DOMAIN rule /\ ~JoiFormatOk(rule.fmt, v) THEN "string." \o rule.fmt
  ELSE "ok"

RECURSIVE SetToSeq(_)
SetToSeq(S) ==
  IF S = {} THEN <<>>
  ELSE LET x == CHOOSE y \in S : TRUE IN <<x>> \o SetToSeq(S \ {x})

RECURSIVE JoiDetails(_, _, _)
RECURSIVE JoiChildren(_, _, _)

\* The errors of one key of an object.
JoiKeyDetails(rule, body) ==
  IF rule.key \notin DOMAIN body
    THEN IF rule.required
           THEN << [path |-> rule.label, type |-> "any.required"] >>
           ELSE << >>
  ELSE IF "object" \in DOMAIN rule
    THEN JoiDetails(rule.object, body[rule.key], rule.label \o ".")
  ELSE LET t == JoiStringType(rule, body[rule.key])
       IN  IF t = "ok" THEN << >> ELSE << [path |-> rule.label, type |-> t] >>

\* The errors of the keys rules[i..], in schema order.
JoiChildren(rules, body, i) ==
  IF i > Len(rules) THEN << >>
  ELSE JoiKeyDetails(rules[i], body) \o JoiChildren(rules, body, i + 1)

\* Every error of an object: its keys in schema order, then the keys the
\* schema does not know (Joi.object forbids them by default).
JoiDetails(rules, body, prefix) ==
  LET known   == {rules[i].key : i \in 1..Len(rules)}
      unknown == SetToSeq(DOMAIN body \ known)
  IN  JoiChildren(rules, body, 1)
        \o [i \in 1..Len(unknown) |->
              [path |-> prefix \o unknown[i], type |-> "object.unknown"]]

\* schema.validate(req.body) with Joi's defaults: abortEarly stops at the
\* first error, and no conversion is configured, so value is the body.
JoiValidate(rules, body) ==
  LET all == JoiDetails(rules, body, "")
  IN  [error   |-> all # << >>,
       details |-> IF all = << >> THEN << >> ELSE << all[1] >>,
       value   |-> body]


(***************************************************************************)
(* The Joi schemas of the four routers.                                    *)
(***************************************************************************)
Str(key, more) == [key |-> key, label |-> key, required |-> TRUE] @@ more

schemeSchema ==
  << Str("title",       [min |-> 3, max |-> 255]),
     Str("description", [min |-> 10]),
     Str("eligibility", [min |-> 5]),
     Str("link",        [fmt |-> "uri"]),
     Str("language",    [min |-> 2, max |-> 50]),
     Str("category",    [max |-> 100]) >>

jobSchema ==
  << Str("title",       [min |-> 3, max |-> 255]),
     Str("description", [min |-> 10]),
     Str("category",    [min |-> 2, max |-> 100]),
     Str("location",    [min |-> 2, max |-> 255]),
     Str("language",    [min |-> 2, max |-> 50]) >>

ContentTypes ==
  { <<"v","i","d","e","o">>, <<"p","d","f">>, <<"t","e","x","t">>,
    <<"i","n","f","o","g","r","a","p","h","i","c">> }

trainingSchema ==
  << Str("title",    [min |-> 3, max |-> 255]),
     Str("type",     [valid |-> ContentTypes]),
     Str("url",      [fmt |-> "uri"]),
     Str("language", [min |-> 2, max |-> 50]),
     [key |-> "description", label |-> "description", required |-> FALSE,
      max |-> 1000] >>

marketplaceSchema ==
  << Str("businessName",   [min |-> 2, max |-> 255]),
     Str("ownerName",      [min |-> 2, max |-> 255]),
     Str("productService", [min |-> 5]),
     [key |-> "contact", label |-> "contact", required |-> TRUE,
      object |->
        << [key |-> "phone", label |-> "contact.phone", required |-> TRUE,
            fmt |-> "phone"],
           [key |-> "email", label |-> "contact.email", required |-> TRUE,
            fmt |-> "email"],
           [key |-> "address", label |-> "contact.address", required |-> TRUE,
            min |-> 10] >>],
     Str("language", [min |-> 2, max |-> 50]),
     Str("location", [max |-> 255]) >>

(***************************************************************************)
(* Mongoose: a schema is a sequence of path rules.  A rule has path (the   *)
(* keys leading to the value) and, where the source sets them, minlength,  *)
(* maxlength, match, enum and lowercase.  Every path below is required.    *)
(***************************************************************************)
Path(path, more) == [path |-> path] @@ more

SchemeModelSchema ==
  << Path(<<"title">>,       [minlength |-> 3, maxlength |-> 255]),
     Path(<<"description">>, [minlength |-> 10]),
     Path(<<"eligibility">>, [minlength |-> 10]),
     Path(<<"link">>,        [match |-> "httpUrl"]),
     Path(<<"category">>,    [minlength |-> 2, maxlength |-> 100]),
     Path(<<"language">>,    [minlength |-> 2, maxlength |-> 50]) >>

JobModelSchema ==
  << Path(<<"title">>,       [minlength |-> 3, maxlength |-> 255]),
     Path(<<"description">>, [minlength |-> 10]),
     Path(<<"category">>,    [minlength |-> 2, maxlength |-> 100]),
     Path(<<"location">>,    [minlength |-> 2, maxlength |-> 255]),
     Path(<<"language">>,    [minlength |-> 2, maxlength |-> 50]) >>

trainingContentSchema ==
  << Path(<<"title">>,       [minlength |-> 3, maxlength |-> 255]),
     Path(<<"description">>, [minlength |-> 10]),
     Path(<<"type">>,        [enum |-> ContentTypes]),
     Path(<<"url">>,         [match |-> "httpUrl"]),
     Path(<<"language">>,    [minlength |-> 2, maxlength |-> 50]) >>

MarketplaceModelSchema ==
  << Path(<<"businessName">>,   [minlength |-> 2, maxlength |-> 255]),
     Path(<<"ownerName">>,      [minlength |-> 2, maxlength |-> 255]),
     Path(<<"productService">>, [minlength |-> 10]),
     Path(<<"contact", "phone">>,   [match |-> "phone"]),
     Path(<<"contact", "email">>,   [match |-> "email", lowercase |-> TRUE]),
     Path(<<"contact", "address">>, [minlength |-> 10]),
     Path(<<"location">>,       [minlength |-> 2, maxlength |-> 255]),
     Path(<<"language">>,       [minlength |-> 2, maxlength |-> 50]) >>

\* Paths are one or two keys deep.
HasPath(obj, path) ==
  /\ path[1] \in DOMAIN obj
  /\ Len(path) = 2 => path[2] \in DOMAIN obj[path[1]]

GetPath(obj, path) ==
  IF Len(path) = 1 THEN obj[path[1]] ELSE obj[path[1]][path[2]]

SetPath(obj, path, v) ==
  IF Len(path) = 1 THEN [obj EXCEPT ![path[1]] = v]
  ELSE [obj EXCEPT ![path[1]] = [@ EXCEPT ![path[2]] = v]]

ModelMatchOk(match, v) ==
  CASE match = "httpUrl" -> MatchesHttpUrl(v)
    [] match = "phone"   -> MatchesPhone(v)
    [] match = "email"   -> MatchesModelEmail(v)

\* The validators of one path run against a document about to be saved.
PathInvalid(rule, doc) ==
  IF ~HasPath(doc, rule.path) THEN TRUE
  ELSE LET v == GetPath(doc, rule.path)
       IN  \/ v = << >>
           \/ "minlength" \in DOMAIN rule /\ Len(v) < rule.minlength
           \/ "maxlength" \in DOMAIN rule /\ Len(v) > rule.maxlength
           \/ "enum" \in DOMAIN rule /\ v \notin rule.enum
           \/ "match" \in DOMAIN rule /\ ~ModelMatchOk(rule.match, v)

\* The paths whose validation fails: document.save() rejects with a
\* ValidationError exactly when there is one.
ModelInvalidPaths(rules, doc) ==
  {rules[i].path : i \in {j \in 1..Len(rules) : PathInvalid(rules[j], doc)}}

\* The setters of the schema (lowercase) applied to the paths obj holds, as
\* the model constructor and the casting of an update both do.
RECURSIVE ApplySetters(_, _, _)
ApplySetters(rules, obj, i) ==
  IF i > Len(rules) THEN obj
  ELSE LET r == rules[i]
           o == IF "lowercase" \in DOMAIN r /\ HasPath(obj, r.path)
                  THEN SetPath(obj, r.path, ToLower(GetPath(obj, r.path)))
                  ELSE obj
       IN  ApplySetters(rules, o, i + 1)


(***************************************************************************)
(* Callers.  The User model and the auth middleware are not part of the    *)
(* routers; a caller is an account with a role and a display name, or      *)
(* Anonymous, a request that carries no valid token.                       *)
(***************************************************************************)
Anonymous == "anonymous"
Users == {"alice", "bob", "carol", "dave"}
Callers == Users \cup {Anonymous}

UserRole == [u \in Users |->
  CASE u = "alice" -> "user" [] u = "bob" -> "entrepreneur"
    [] u = "carol" -> "admin" [] u = "dave" -> "admin"]

UserName == [u \in Users |->
  CASE u = "alice" -> "Alice A" [] u = "bob" -> "Bob B"
    [] u = "carol" -> "Carol C" [] u = "dave" -> "Dave D"]

(***************************************************************************)
(* Request bodies.                                                         *)
(***************************************************************************)
En == <<"e","n">>
Hi == <<"h","i">>

\* Jobs: the Joi schema and the model agree on every bound.
JobA ==
  [title |-> <<"T","a","i","l","o","r">>, description |-> <<"s","e","w"," ","u","n","i","f","o","r","m","s">>,
   category |-> <<"T","e","x","t","i","l","e">>, location |-> <<"P","u","n","e">>, language |-> En]
JobB ==
  [title |-> <<"F","a","r","m"," ","h","a","n","d">>, description |-> <<"f","a","r","m"," ","l","o","a","n","s">>,
   category |-> <<"F","a","r","m","i","n","g">>, location |-> <<"G","o","a">>, language |-> Hi]
JobShortTitle == [JobA EXCEPT !.title = <<"a","b">>]
JobNoDescription ==
  [k \in DOMAIN JobA \ {"description"} |-> JobA[k]]
JobWithCreatedBy == JobB @@ [createdBy |-> "bob"]
\* Two faults: a title below the minimum and no description.
JobTwoFaults ==
  [k \in DOMAIN JobShortTitle \ {"description"} |-> JobShortTitle[k]]
JobBodies ==
  {JobA, JobB, JobShortTitle, JobNoDescription, JobWithCreatedBy, JobTwoFaults}

SchemeA ==
  [title |-> <<"K","i","s","a","n"," ","c","r","e","d","i","t">>, description |-> <<"f","a","r","m"," ","l","o","a","n","s">>,
   eligibility |-> <<"f","a","r","m","e","r","s"," ","o","n","l","y">>, link |-> <<"h","t","t","p","s",":","/","/","x",".","t","e","s","t","/","a">>,
   language |-> En, category |-> <<"F","a","r","m","i","n","g">>]
SchemeB ==
  [title |-> <<"S","k","i","l","l"," ","g","r","a","n","t">>, description |-> <<"t","r","a","i","n","i","n","g"," ","a","i","d">>,
   eligibility |-> <<"w","o","m","e","n"," ","u","n","d","e","r"," ","4","0">>, link |-> <<"h","t","t","p",":","/","/","y",".","i","n","/","b">>,
   language |-> Hi, category |-> <<"S","k","i","l","l","s">>]
\* Accepted by Joi (min 5), refused by the model (minlength 10).
SchemeShortEligibility == [SchemeA EXCEPT !.eligibility = <<"r","u","r","a","l">>]
SchemeBadLink == [SchemeA EXCEPT !.link = <<"x",".","t","e","s","t">>]
SchemeNoCategory ==
  [k \in DOMAIN SchemeA \ {"category"} |-> SchemeA[k]]
SchemeBodies ==
  {SchemeA, SchemeB, SchemeShortEligibility, SchemeBadLink, SchemeNoCategory}

\* The scenario of the specification: no description.
TrainingIntro ==
  [title |-> <<"I","n","t","r","o">>, type |-> <<"v","i","d","e","o">>, url |-> <<"h","t","t","p","s",":","/","/","x",".","t","e","s","t","/","a">>,
   language |-> En]
TrainingFull == TrainingIntro @@ [description |-> <<"h","o","w"," ","t","o"," ","s","t","a","r","t">>]
TrainingBadType == [TrainingIntro EXCEPT !.type = <<"a","u","d","i","o">>]
TrainingBodies == {TrainingIntro, TrainingFull, TrainingBadType}

MarketA ==
  [businessName |-> <<"A","s","h","a"," ","T","a","i","l","o","r","s">>, ownerName |-> <<"A","s","h","a">>,
   productService |-> <<"s","c","h","o","o","l"," ","u","n","i","f","o","r","m","s">>,
   contact |-> [phone |-> <<"+","9","1","9","8","1","2","3","4","5">>, email |-> <<"a","s","h","a","@","s","h","o","p",".","i","n">>,
                address |-> <<"1","2"," ","M","G"," ","R","o","a","d"," ","P","u","n","e">>],
   language |-> En, location |-> <<"P","u","n","e">>]
\* Accepted by both layers; the model stores the e-mail lower-cased.
MarketUpperEmail ==
  [MarketA EXCEPT !.contact.email = <<"R","a","v","i","@","F","a","r","m",".","I","N">>, !.location = <<"G","o","a">>,
                  !.language = Hi]
\* Accepted by Joi (min 5), refused by the model (minlength 10).
MarketShortProduct == [MarketA EXCEPT !.productService = <<"h","o","n","e","y">>]
MarketBadPhone == [MarketA EXCEPT !.contact.phone = <<"0","1","2","3">>]
MarketBodies ==
  {MarketA, MarketUpperEmail, MarketShortProduct, MarketBadPhone}


(***************************************************************************)
(* State.                                                                  *)
(***************************************************************************)
VARIABLES
  Scheme,           \* the schemes collection: ObjectId -> document
  Job,              \* the jobs collection
  TrainingContent,  \* the training content collection
  Marketplace,      \* the marketplace collection
  nextId,           \* the next ObjectId (and creation time) storage assigns
  req,              \* the request handled last
  res,              \* the response it was given
  handlers          \* the handlers in flight, each between two awaits

vars ==
  <<Scheme, Job, TrainingContent, Marketplace, nextId, req, res, handlers>>

Null == [null |-> TRUE]

(***************************************************************************)
(* Storage operations of a mongoose model on its collection.               *)
(***************************************************************************)
\* req.params.id is any path segment.  Stored ObjectIds are 1, 2, ...; 0
\* stands for a segment that is no ObjectId (neither 24 hex digits nor 12
\* bytes), which a query by _id fails to cast: the query rejects with a
\* CastError.
MalformedId == 0
CastsToObjectId(id) == id # MalformedId

\* Model.findById(id): the document, or null.
FindById(coll, id) == IF id \in DOMAIN coll THEN coll[id] ELSE Null

\* new Model(obj): the setters of the schema run on the paths given.
NewDocument(rules, obj) == ApplySetters(rules, obj, 1)

\* document.save() of a new document: the validators of every path run, and
\* a failing one rejects (the handler's catch block answers).
SaveRejects(rules, doc) == ModelInvalidPaths(rules, doc) # {}

\* The collection after a successful save: storage assigns _id and, the
\* schema having timestamps, createdAt.  Each save gets a later createdAt.
Saved(coll, doc, id) ==
  LET stored == doc @@ [_id |-> id, createdAt |-> id]
  IN  [k \in DOMAIN coll \cup {id} |-> IF k = id THEN stored ELSE coll[k]]

\* A variant of FindByIdAndUpdate that fills in only the keys the document
\* lacks, so that what an earlier write stored is kept.
FindByIdAndUpdateKeeping(rules, coll, id, update) ==
  IF id \notin DOMAIN coll THEN coll
  ELSE LET set == ApplySetters(rules, update, 1)
           old == coll[id]
           new == [k \in DOMAIN old \cup DOMAIN set |->
                     IF k \in DOMAIN old THEN old[k] ELSE set[k]]
       IN  [k \in DOMAIN coll |-> IF k = id THEN new ELSE coll[k]]

\* Model.findByIdAndUpdate(id, update, { new: true }): the keys of update
\* replace those of the document ($set), after casting with the schema's
\* setters; no validator runs (runValidators is off) and nothing is inserted
\* when the id is absent (upsert is off).
FindByIdAndUpdate(rules, coll, id, update) ==
  IF id \notin DOMAIN coll THEN coll
  ELSE LET set == ApplySetters(rules, update, 1)
           old == coll[id]
           new == [k \in DOMAIN old \cup DOMAIN set |->
                     IF k \in DOMAIN set THEN set[k] ELSE old[k]]
       IN  [k \in DOMAIN coll |-> IF k = id THEN new ELSE coll[k]]

\* A variant of FindByIdAndDelete whose removal never takes effect.
FindByIdAndDeleteLost(coll, id) == coll

\* Model.findByIdAndDelete(id).
FindByIdAndDelete(coll, id) == [k \in DOMAIN coll \ {id} |-> coll[k]]

\* .populate('createdBy', 'name') and the handler's
\* { ...doc.toObject(), created_by_name: doc.createdBy?.name }.
Enriched(doc) ==
  [doc EXCEPT !.createdBy = [_id |-> @, name |-> UserName[@]]]
    @@ [created_by_name |-> UserName[doc.createdBy]]
    @@ [created_by_name |-> UserName[doc.createdBy]]

(***************************************************************************)
(* Filters, ordering and pages of the list routes.                         *)
(***************************************************************************)
\* `if (param)`: a query parameter counts when present and non-empty.
Given(query, key) == key \in DOMAIN query /\ query[key] # << >>

Exactly(v) == [op |-> "eq", v |-> v]
Regex(v) == [op |-> "regex", v |-> v]

\* One filter object built from the parameters given, key by key.
FilterOf(query, conds) ==
  [k \in {c \in DOMAIN conds : Given(query, c)} |->
     IF conds[k] = "regex" THEN Regex(query[k]) ELSE Exactly(query[k])]

Satisfies(doc, filter) ==
  \A k \in DOMAIN filter :
    IF filter[k].op = "regex" THEN RegexMatchI(filter[k].v, doc[k])
    ELSE doc[k] = filter[k].v

\* Model.find(filter) and Model.countDocuments(filter).
Find(coll, filter) == {coll[id] : id \in {i \in DOMAIN coll : Satisfies(coll[i], filter)}}
CountDocuments(coll, filter) == Cardinality(Find(coll, filter))

\* .sort({ createdAt: -1 })
RECURSIVE SortCreatedAtDesc(_)
SortCreatedAtDesc(docs) ==
  IF docs = {} THEN << >>
  ELSE LET d == CHOOSE x \in docs : \A y \in docs : y.createdAt <= x.createdAt
       IN  <<d>> \o SortCreatedAtDesc(docs \ {d})

\* .skip(skip).limit(limit)
SkipLimit(seq, skip, limit) ==
  SubSeq(seq, skip + 1, IF skip + limit < Len(seq) THEN skip + limit ELSE Len(seq))

\* Math.ceil(a / b) for a >= 0, b > 0.
Ceil(a, b) == (a + b - 1) \div b

DefaultPage == 1
DefaultLimit == 10
PageOf(query) == IF "page" \in DOMAIN query THEN query.page ELSE DefaultPage
LimitOf(query) == IF "limit" \in DOMAIN query THEN query.limit ELSE DefaultLimit

\* skip = (page - 1) * limit goes to .skip(skip) unchecked; storage rejects a
\* find with a negative skip, and the handler's catch block answers.
SkipRejected(query) == (PageOf(query) - 1) * LimitOf(query) < 0

\* The body every mongoose list route builds: the page of enriched
\* documents under `key`, and the pagination block.
ListData(coll, filter, query, key) ==
  LET page   == PageOf(query)
      limit  == LimitOf(query)
      skip   == (page - 1) * limit
      docs   == SkipLimit(SortCreatedAtDesc(Find(coll, filter)), skip, limit)
      total  == CountDocuments(coll, filter)
  IN  (key :> [i \in 1..Len(docs) |-> Enriched(docs[i])])
        @@ [pagination |-> [currentPage  |-> page,
                            totalPages   |-> Ceil(total, limit),
                            totalItems   |-> total,
                            itemsPerPage |-> limit]]

\* The filter of a search route: { $or: [{ field: { $regex: query, $options:
\* 'i' } }, ...] }, and language when given.
SearchMatches(doc, fields, term, query) ==
  /\ \E f \in fields : RegexMatchI(term, doc[f])
  /\ Given(query, "language") => doc.language = query.language

\* The body of a search response: data: { results }, the page of enriched
\* documents and nothing else.
SearchData(coll, fields, term, query) ==
  LET skip  == (PageOf(query) - 1) * LimitOf(query)
      found == {coll[id] : id \in {i \in DOMAIN coll :
                                    SearchMatches(coll[i], fields, term, query)}}
      docs  == SkipLimit(SortCreatedAtDesc(found), skip, LimitOf(query))
  IN  [results |-> [i \in 1..Len(docs) |-> Enriched(docs[i])]]

(***************************************************************************)
(* Responses.                                                              *)
(***************************************************************************)
Response(status, message, errors, data) ==
  [status |-> status, message |-> message, errors |-> errors, data |-> data]

Ok(message, data) == Response(200, message, << >>, data)
Created(message, data) == Response(201, message, << >>, data)
\* errors: error.details.map(detail => detail.message); a message names
\* the path of its detail, which is what is kept of it here.
ValidationError(details) == Response(400, "Validation error", details, Null)
NotFound(message) == Response(404, message, << >>, Null)
Forbidden(message) == Response(403, message, << >>, Null)
\* Every catch block: an exception thrown inside the handler.
InternalError == Response(500, "Internal server error", << >>, Null)

\* What a handler leaves behind: its response and its collection.
Out(response, coll) == [res |-> response, coll |-> coll]

(***************************************************************************)
(* The auth middleware (backend/middleware/auth, not among the sources):    *)
(* authenticateToken answers 401 without a valid token and sets req.user;  *)
(* requireRole(roles) answers 403 when req.user.role is not one of roles.  *)
(***************************************************************************)
Unauthenticated == Response(401, "Access token required", << >>, Null)
InsufficientRole == Response(403, "Insufficient permissions", << >>, Null)

authenticateToken(caller, coll, next) ==
  IF caller = Anonymous THEN Out(Unauthenticated, coll) ELSE next

requireRole(roles, caller, coll, next) ==
  IF UserRole[caller] \notin roles THEN Out(InsufficientRole, coll) ELSE next


(***************************************************************************)
(* Requests.                                                               *)
(***************************************************************************)
IdParams == 1..MaxId
\* The ids the get-by-id routes are asked for.
GetIdParams == IdParams \cup {MalformedId}

NoParams == [k \in {} |-> k]

\* page and limit are either both given or both left to their defaults; a
\* caller may send page 0.
Paging ==
  {[page |-> p, limit |-> l] : p \in 0..MaxPage, l \in 1..MaxLimit} \cup {NoParams}

\* The queries over optional filter parameters: each parameter absent or one
\* of its values, with every paging.
Queries(values) ==
  UNION { { f @@ pg : f \in {g \in [ks -> UNION {values[k] : k \in ks}] :
                                 \A k \in ks : g[k] \in values[k]},
                      pg \in Paging }
          : ks \in SUBSET DOMAIN values }

\* A request: its method, router and caller, and in params what the route
\* takes of id, body and query.
Request(method, resource, caller, params) ==
  [method |-> method, resource |-> resource, caller |-> caller] @@ params

\* The query of a search route: language and paging, each optional.
SearchQueries == Queries([language |-> {En}])

(***************************************************************************)
(* Schemes router.                                                         *)
(***************************************************************************)
SchemeQueries ==
  Queries([language |-> {Hi}, category |-> {<<"f","A","r","m">>, <<"s",".","i">>}])

\* router.get('/')
SchemesGetAll(query) ==
  LET filter == FilterOf(query, [language |-> "eq", category |-> "regex"])
  IN  IF SkipRejected(query) THEN Out(InternalError, Scheme)
      ELSE Out(Ok("", ListData(Scheme, filter, query, "schemes")), Scheme)

\* router.get('/:id')
SchemesGetById(id) ==
  LET scheme == FindById(Scheme, id)
  IN  IF ~CastsToObjectId(id) THEN Out(InternalError, Scheme)
      ELSE IF scheme = Null THEN Out(NotFound("Scheme not found"), Scheme)
      ELSE Out(Ok("", [scheme |-> Enriched(scheme)]), Scheme)

\* router.get('/search/:query')
SchemeSearchFields == {"title", "description", "category"}
SchemeSearchTerms == {<<"f","a","r","m">>, <<".">>}
SchemesSearch(term, query) ==
  IF SkipRejected(query) THEN Out(InternalError, Scheme)
  ELSE Out(Ok("", SearchData(Scheme, SchemeSearchFields, term, query)), Scheme)

\* The roles each mutating scheme route passes to requireRole.
SchemesPostRoles == {"admin"}
SchemesPutRoles == {"admin"}
\* A variant of SchemesDeleteRoles that also lets entrepreneurs through, as
\* the training routes do.
SchemesDeleteRolesWide == {"entrepreneur", "admin"}
SchemesDeleteRoles == {"admin"}

\* router.post('/')
SchemesCreate(caller, body) ==
  authenticateToken(caller, Scheme,
  requireRole(SchemesPostRoles, caller, Scheme,
    LET v      == JoiValidate(schemeSchema, body)
        scheme == NewDocument(SchemeModelSchema, [createdBy |-> caller] @@ v.value)
        coll   == Saved(Scheme, scheme, nextId)
    IN  IF v.error THEN Out(ValidationError(v.details), Scheme)
        ELSE IF SaveRejects(SchemeModelSchema, scheme) THEN Out(InternalError, Scheme)
        ELSE Out(Created("Scheme created successfully",
                         [scheme |-> Enriched(FindById(coll, nextId))]), coll)))

\* router.put('/:id')
SchemesUpdate(caller, id, body) ==
  authenticateToken(caller, Scheme,
  requireRole(SchemesPutRoles, caller, Scheme,
    LET v              == JoiValidate(schemeSchema, body)
        existingScheme == FindById(Scheme, id)
        coll           == FindByIdAndUpdate(SchemeModelSchema, Scheme, id, v.value)
    IN  IF v.error THEN Out(ValidationError(v.details), Scheme)
        ELSE IF existingScheme = Null THEN Out(NotFound("Scheme not found"), Scheme)
        ELSE Out(Ok("Scheme updated successfully",
                    [scheme |-> Enriched(coll[id])]), coll)))

\* router.delete('/:id')
SchemesDelete(caller, id) ==
  authenticateToken(caller, Scheme,
  requireRole(SchemesDeleteRoles, caller, Scheme,
    LET existingScheme == FindById(Scheme, id)
    IN  IF existingScheme = Null THEN Out(NotFound("Scheme not found"), Scheme)
        ELSE Out(Ok("Scheme deleted successfully", Null),
                 FindByIdAndDelete(Scheme, id))))


(***************************************************************************)
(* Jobs router.                                                         *)
(***************************************************************************)
JobQueries ==
  Queries([category |-> {<<"f","A","r","m">>}, location |-> {<<"g","o","a">>}, language |-> {Hi}])

\* router.get('/')
JobsGetAll(query) ==
  LET filter == FilterOf(query, [category |-> "regex", location |-> "regex", language |-> "eq"])
  IN  IF SkipRejected(query) THEN Out(InternalError, Job)
      ELSE Out(Ok("", ListData(Job, filter, query, "jobs")), Job)

\* router.get('/:id')
JobsGetById(id) ==
  LET job == FindById(Job, id)
  IN  IF ~CastsToObjectId(id) THEN Out(InternalError, Job)
      ELSE IF job = Null THEN Out(NotFound("Job not found"), Job)
      ELSE Out(Ok("", [job |-> Enriched(job)]), Job)

\* The document the create route builds: { ...value, createdBy: req.user._id }.
JobsNewFields(value, caller) == [createdBy |-> caller] @@ value

\* A variant of JobsUpdateFields that stamps the caller on the update as the
\* create route does: { ...value, createdBy: req.user._id }.
JobsUpdateFieldsStamped(value, caller) == [createdBy |-> caller] @@ value

\* The update the update route hands to findByIdAndUpdate: value.
JobsUpdateFields(value, caller) == value

\* The ownership test of the update and delete routes.
JobsNotOwner(existing, caller) ==
  existing.createdBy # caller /\ UserRole[caller] # "admin"

\* router.post('/')
JobsCreate(caller, body) ==
  authenticateToken(caller, Job,
    LET v     == JoiValidate(jobSchema, body)
        job == NewDocument(JobModelSchema, JobsNewFields(v.value, caller))
        coll  == Saved(Job, job, nextId)
    IN  IF v.error THEN Out(ValidationError(v.details), Job)
        ELSE IF SaveRejects(JobModelSchema, job) THEN Out(InternalError, Job)
        ELSE Out(Created("Job created successfully",
                         [job |-> Enriched(FindById(coll, nextId))]), coll))

\* router.put('/:id')
JobsUpdate(caller, id, body) ==
  authenticateToken(caller, Job,
    LET v        == JoiValidate(jobSchema, body)
        existing == FindById(Job, id)
        coll     == FindByIdAndUpdate(JobModelSchema, Job, id,
                                      JobsUpdateFields(v.value, caller))
    IN  IF v.error THEN Out(ValidationError(v.details), Job)
        ELSE IF existing = Null THEN Out(NotFound("Job not found"), Job)
        ELSE IF JobsNotOwner(existing, caller)
          THEN Out(Forbidden("You can only update your own jobs"), Job)
        ELSE Out(Ok("Job updated successfully",
                    [job |-> Enriched(coll[id])]), coll))

\* router.delete('/:id')
JobsDelete(caller, id) ==
  authenticateToken(caller, Job,
    LET existing == FindById(Job, id)
    IN  IF existing = Null THEN Out(NotFound("Job not found"), Job)
        ELSE IF JobsNotOwner(existing, caller)
          THEN Out(Forbidden("You can only delete your own jobs"), Job)
        ELSE Out(Ok("Job deleted successfully", Null),
                 FindByIdAndDelete(Job, id)))

(***************************************************************************)
(* Marketplace router.                                                         *)
(***************************************************************************)
MarketplaceQueries ==
  Queries([language |-> {Hi}, location |-> {<<"G","O","A">>}])

\* router.get('/')
MarketplaceGetAll(query) ==
  LET filter == FilterOf(query, [language |-> "eq", location |-> "regex"])
  IN  IF SkipRejected(query) THEN Out(InternalError, Marketplace)
      ELSE Out(Ok("", ListData(Marketplace, filter, query, "marketplace")), Marketplace)

\* router.get('/:id')
MarketplaceGetById(id) ==
  LET entry == FindById(Marketplace, id)
  IN  IF ~CastsToObjectId(id) THEN Out(InternalError, Marketplace)
      ELSE IF entry = Null THEN Out(NotFound("Marketplace entry not found"), Marketplace)
      ELSE Out(Ok("", [entry |-> Enriched(entry)]), Marketplace)

\* router.get('/search/:query')
MarketplaceSearchFields == {"businessName", "productService"}
MarketplaceSearchTerms == {<<"a","s","h","a">>, <<".">>}
MarketplaceSearch(term, query) ==
  IF SkipRejected(query) THEN Out(InternalError, Marketplace)
  ELSE Out(Ok("", SearchData(Marketplace, MarketplaceSearchFields, term, query)),
           Marketplace)

\* The document the create route builds: { ...value, createdBy: req.user._id }.
MarketplaceNewFields(value, caller) == [createdBy |-> caller] @@ value

\* The update the update route hands to findByIdAndUpdate: value.
MarketplaceUpdateFields(value, caller) == value

\* The ownership test of the update and delete routes.
MarketplaceNotOwner(existing, caller) ==
  existing.createdBy # caller /\ UserRole[caller] # "admin"

\* router.post('/')
MarketplaceCreate(caller, body) ==
  authenticateToken(caller, Marketplace,
    LET v     == JoiValidate(marketplaceSchema, body)
        entry == NewDocument(MarketplaceModelSchema, MarketplaceNewFields(v.value, caller))
        coll  == Saved(Marketplace, entry, nextId)
    IN  IF v.error THEN Out(ValidationError(v.details), Marketplace)
        ELSE IF SaveRejects(MarketplaceModelSchema, entry) THEN Out(InternalError, Marketplace)
        ELSE Out(Created("Marketplace entry created successfully",
                         [entry |-> Enriched(FindById(coll, nextId))]), coll))

\* router.put('/:id')
MarketplaceUpdate(caller, id, body) ==
  authenticateToken(caller, Marketplace,
    LET v        == JoiValidate(marketplaceSchema, body)
        existing == FindById(Marketplace, id)
        coll     == FindByIdAndUpdate(MarketplaceModelSchema, Marketplace, id,
                                      MarketplaceUpdateFields(v.value, caller))
    IN  IF v.error THEN Out(ValidationError(v.details), Marketplace)
        ELSE IF existing = Null THEN Out(NotFound("Marketplace entry not found"), Marketplace)
        ELSE IF MarketplaceNotOwner(existing, caller)
          THEN Out(Forbidden("You can only update your own marketplace entries"), Marketplace)
        ELSE Out(Ok("Marketplace entry updated successfully",
                    [entry |-> Enriched(coll[id])]), coll))

\* router.delete('/:id')
MarketplaceDelete(caller, id) ==
  authenticateToken(caller, Marketplace,
    LET existing == FindById(Marketplace, id)
    IN  IF existing = Null THEN Out(NotFound("Marketplace entry not found"), Marketplace)
        ELSE IF MarketplaceNotOwner(existing, caller)
          THEN Out(Forbidden("You can only delete your own marketplace entries"), Marketplace)
        ELSE Out(Ok("Marketplace entry deleted successfully", Null),
                 FindByIdAndDelete(Marketplace, id)))


(***************************************************************************)
(* Training router.  The file requires express, Joi, ../config/database    *)
(* (as db) and the auth middleware; it never requires the TrainingContent  *)
(* model, so evaluating that identifier throws a ReferenceError, and db is *)
(* connectDB, whose result has no select method, so the list route throws  *)
(* a TypeError.  Either lands in the handler's catch block.                *)
(***************************************************************************)
TrainingContentImported == FALSE
DbIsQueryBuilder == FALSE

TrainingQueries ==
  Queries([type |-> {<<"v","i","d","e","o">>}, language |-> {Hi}])

TrainingRoles == {"entrepreneur", "admin"}

\* router.get('/')
TrainingGetAll(query) ==
  LET filter == FilterOf(query, [type |-> "eq", language |-> "eq"])
  IN  IF ~DbIsQueryBuilder THEN Out(InternalError, TrainingContent)
      ELSE Out(Ok("", ListData(TrainingContent, filter, query, "trainingContent")),
               TrainingContent)

\* router.get('/:id')
TrainingGetById(id) ==
  LET content == FindById(TrainingContent, id)
  IN  IF ~TrainingContentImported THEN Out(InternalError, TrainingContent)
      ELSE IF content = Null
        THEN Out(NotFound("Training content not found"), TrainingContent)
      ELSE Out(Ok("", [content |-> Enriched(content)]), TrainingContent)

TrainingNotOwner(existing, caller) ==
  existing.createdBy # caller /\ UserRole[caller] # "admin"

\* router.post('/')
TrainingCreate(caller, body) ==
  authenticateToken(caller, TrainingContent,
  requireRole(TrainingRoles, caller, TrainingContent,
    LET v       == JoiValidate(trainingSchema, body)
        content == NewDocument(trainingContentSchema,
                               [createdBy |-> caller] @@ v.value)
        coll    == Saved(TrainingContent, content, nextId)
    IN  IF v.error THEN Out(ValidationError(v.details), TrainingContent)
        ELSE IF ~TrainingContentImported THEN Out(InternalError, TrainingContent)
        ELSE IF SaveRejects(trainingContentSchema, content)
          THEN Out(InternalError, TrainingContent)
        ELSE Out(Created("Training content created successfully",
                         [content |-> Enriched(FindById(coll, nextId))]), coll)))

\* router.put('/:id')
TrainingUpdate(caller, id, body) ==
  authenticateToken(caller, TrainingContent,
  requireRole(TrainingRoles, caller, TrainingContent,
    LET v        == JoiValidate(trainingSchema, body)
        existing == FindById(TrainingContent, id)
        coll     == FindByIdAndUpdate(trainingContentSchema, TrainingContent,
                                      id, v.value)
    IN  IF v.error THEN Out(ValidationError(v.details), TrainingContent)
        ELSE IF ~TrainingContentImported THEN Out(InternalError, TrainingContent)
        ELSE IF existing = Null
          THEN Out(NotFound("Training content not found"), TrainingContent)
        ELSE IF TrainingNotOwner(existing, caller)
          THEN Out(Forbidden("You can only update your own training content"),
                   TrainingContent)
        ELSE Out(Ok("Training content updated successfully",
                    [content |-> Enriched(coll[id])]), coll)))

\* router.delete('/:id')
TrainingDelete(caller, id) ==
  authenticateToken(caller, TrainingContent,
  requireRole(TrainingRoles, caller, TrainingContent,
    LET existing == FindById(TrainingContent, id)
    IN  IF ~TrainingContentImported THEN Out(InternalError, TrainingContent)
        ELSE IF existing = Null
          THEN Out(NotFound("Training content not found"), TrainingContent)
        ELSE IF TrainingNotOwner(existing, caller)
          THEN Out(Forbidden("You can only delete your own training content"),
                   TrainingContent)
        ELSE Out(Ok("Training content deleted successfully", Null),
                 FindByIdAndDelete(TrainingContent, id))))

(***************************************************************************)
(* Initial state.  The collections start empty, except that the training   *)
(* collection, which no route of this server can write, may already hold a *)
(* document stored before the server started.                              *)
(***************************************************************************)
NoDocuments == [k \in {} |-> k]

\* No request is being handled.
NoRequest == Request("NONE", "none", Anonymous, NoParams)
NoResponse == Response(0, "", << >>, Null)

SeededTraining == TrainingFull @@ [createdBy |-> "carol", _id |-> 1, createdAt |-> 1]

\* The handlers the runtime can have in flight at once, and a free one.
MaxHandlers == 2
Slots == 1..MaxHandlers
Handler(pc, request, response) == [pc |-> pc, req |-> request, res |-> response]
NoHandler == Handler("idle", NoRequest, NoResponse)

Init ==
  /\ handlers = [s \in Slots |-> NoHandler]
  /\ Scheme = NoDocuments
  /\ Job = NoDocuments
  /\ Marketplace = NoDocuments
  /\ \/ TrainingContent = NoDocuments /\ nextId = 1
     \/ TrainingContent = (1 :> SeededTraining) /\ nextId = 2
  /\ req = NoRequest
  /\ res = NoResponse

(***************************************************************************)
(* One action per route: the server takes a request and runs its handler   *)
(* to the response.  A create that stores a document takes the next        *)
(* ObjectId; the model stops handing them out after MaxId.  Finish ends    *)
(* the exchange: the response is sent and the server waits for a request.  *)
(***************************************************************************)
Idle == req = NoRequest
HasId(response) == response.status = 201 => nextId <= MaxId
IdAfter(response) == IF response.status = 201 THEN nextId + 1 ELSE nextId

SchemesList ==
  \E query \in SchemeQueries :
    LET out == SchemesGetAll(query)
    IN  /\ Idle
        /\ HasId(out.res)
        /\ Scheme' = out.coll
        /\ nextId' = IdAfter(out.res)
        /\ req' = Request("LIST", "schemes", Anonymous, [query |-> query])
        /\ res' = out.res
        /\ UNCHANGED <<Job, TrainingContent, Marketplace, handlers>>

SchemesGet ==
  \E id \in GetIdParams :
    LET out == SchemesGetById(id)
    IN  /\ Idle
        /\ HasId(out.res)
        /\ Scheme' = out.coll
        /\ nextId' = IdAfter(out.res)
        /\ req' = Request("GET", "schemes", Anonymous, [id |-> id])
        /\ res' = out.res
        /\ UNCHANGED <<Job, TrainingContent, Marketplace, handlers>>

SchemesPost ==
  \E caller \in Callers, body \in SchemeBodies :
    LET out == SchemesCreate(caller, body)
    IN  /\ Idle
        /\ HasId(out.res)
        /\ Scheme' = out.coll
        /\ nextId' = IdAfter(out.res)
        /\ req' = Request("POST", "schemes", caller, [body |-> body])
        /\ res' = out.res
        /\ UNCHANGED <<Job, TrainingContent, Marketplace, handlers>>

SchemesPut ==
  \E caller \in Callers, id \in IdParams, body \in SchemeBodies :
    LET out == SchemesUpdate(caller, id, body)
    IN  /\ Idle
        /\ HasId(out.res)
        /\ Scheme' = out.coll
        /\ nextId' = IdAfter(out.res)
        /\ req' = Request("PUT", "schemes", caller, [id |-> id, body |-> body])
        /\ res' = out.res
        /\ UNCHANGED <<Job, TrainingContent, Marketplace, handlers>>

SchemesRemove ==
  \E caller \in Callers, id \in IdParams :
    LET out == SchemesDelete(caller, id)
    IN  /\ Idle
        /\ HasId(out.res)
        /\ Scheme' = out.coll
        /\ nextId' = IdAfter(out.res)
        /\ req' = Request("DELETE", "schemes", caller, [id |-> id])
        /\ res' = out.res
        /\ UNCHANGED <<Job, TrainingContent, Marketplace, handlers>>

JobsList ==
  \E query \in JobQueries :
    LET out == JobsGetAll(query)
    IN  /\ Idle
        /\ HasId(out.res)
        /\ Job' = out.coll
        /\ nextId' = IdAfter(out.res)
        /\ req' = Request("LIST", "jobs", Anonymous, [query |-> query])
        /\ res' = out.res
        /\ UNCHANGED <<Scheme, TrainingContent, Marketplace, handlers>>

JobsGet ==
  \E id \in GetIdParams :
    LET out == JobsGetById(id)
    IN  /\ Idle
        /\ HasId(out.res)
        /\ Job' = out.coll
        /\ nextId' = IdAfter(out.res)
        /\ req' = Request("GET", "jobs", Anonymous, [id |-> id])
        /\ res' = out.res
        /\ UNCHANGED <<Scheme, TrainingContent, Marketplace, handlers>>

JobsPost ==
  \E caller \in Callers, body \in JobBodies :
    LET out == JobsCreate(caller, body)
    IN  /\ Idle
        /\ HasId(out.res)
        /\ Job' = out.coll
        /\ nextId' = IdAfter(out.res)
        /\ req' = Request("POST", "jobs", caller, [body |-> body])
        /\ res' = out.res
        /\ UNCHANGED <<Scheme, TrainingContent, Marketplace, handlers>>

JobsPut ==
  \E caller \in Callers, id \in IdParams, body \in JobBodies :
    LET out == JobsUpdate(caller, id, body)
    IN  /\ Idle
        /\ HasId(out.res)
        /\ Job' = out.coll
        /\ nextId' = IdAfter(out.res)
        /\ req' = Request("PUT", "jobs", caller, [id |-> id, body |-> body])
        /\ res' = out.res
        /\ UNCHANGED <<Scheme, TrainingContent, Marketplace, handlers>>

JobsRemove ==
  \E caller \in Callers, id \in IdParams :
    LET out == JobsDelete(caller, id)
    IN  /\ Idle
        /\ HasId(out.res)
        /\ Job' = out.coll
        /\ nextId' = IdAfter(out.res)
        /\ req' = Request("DELETE", "jobs", caller, [id |-> id])
        /\ res' = out.res
        /\ UNCHANGED <<Scheme, TrainingContent, Marketplace, handlers>>

TrainingList ==
  \E query \in TrainingQueries :
    LET out == TrainingGetAll(query)
    IN  /\ Idle
        /\ HasId(out.res)
        /\ TrainingContent' = out.coll
        /\ nextId' = IdAfter(out.res)
        /\ req' = Request("LIST", "training", Anonymous, [query |-> query])
        /\ res' = out.res
        /\ UNCHANGED <<Scheme, Job, Marketplace, handlers>>

TrainingGet ==
  \E id \in GetIdParams :
    LET out == TrainingGetById(id)
    IN  /\ Idle
        /\ HasId(out.res)
        /\ TrainingContent' = out.coll
        /\ nextId' = IdAfter(out.res)
        /\ req' = Request("GET", "training", Anonymous, [id |-> id])
        /\ res' = out.res
        /\ UNCHANGED <<Scheme, Job, Marketplace, handlers>>

TrainingPost ==
  \E caller \in Callers, body \in TrainingBodies :
    LET out == TrainingCreate(caller, body)
    IN  /\ Idle
        /\ HasId(out.res)
        /\ TrainingContent' = out.coll
        /\ nextId' = IdAfter(out.res)
        /\ req' = Request("POST", "training", caller, [body |-> body])
        /\ res' = out.res
        /\ UNCHANGED <<Scheme, Job, Marketplace, handlers>>

TrainingPut ==
  \E caller \in Callers, id \in IdParams, body \in TrainingBodies :
    LET out == TrainingUpdate(caller, id, body)
    IN  /\ Idle
        /\ HasId(out.res)
        /\ TrainingContent' = out.coll
        /\ nextId' = IdAfter(out.res)
        /\ req' = Request("PUT", "training", caller, [id |-> id, body |-> body])
        /\ res' = out.res
        /\ UNCHANGED <<Scheme, Job, Marketplace, handlers>>

TrainingRemove ==
  \E caller \in Callers, id \in IdParams :
    LET out == TrainingDelete(caller, id)
    IN  /\ Idle
        /\ HasId(out.res)
        /\ TrainingContent' = out.coll
        /\ nextId' = IdAfter(out.res)
        /\ req' = Request("DELETE", "training", caller, [id |-> id])
        /\ res' = out.res
        /\ UNCHANGED <<Scheme, Job, Marketplace, handlers>>

MarketplaceList ==
  \E query \in MarketplaceQueries :
    LET out == MarketplaceGetAll(query)
    IN  /\ Idle
        /\ HasId(out.res)
        /\ Marketplace' = out.coll
        /\ nextId' = IdAfter(out.res)
        /\ req' = Request("LIST", "marketplace", Anonymous, [query |-> query])
        /\ res' = out.res
        /\ UNCHANGED <<Scheme, Job, TrainingContent, handlers>>

MarketplaceGet ==
  \E id \in GetIdParams :
    LET out == MarketplaceGetById(id)
    IN  /\ Idle
        /\ HasId(out.res)
        /\ Marketplace' = out.coll
        /\ nextId' = IdAfter(out.res)
        /\ req' = Request("GET", "marketplace", Anonymous, [id |-> id])
        /\ res' = out.res
        /\ UNCHANGED <<Scheme, Job, TrainingContent, handlers>>

MarketplacePost ==
  \E caller \in Callers, body \in MarketBodies :
    LET out == MarketplaceCreate(caller, body)
    IN  /\ Idle
        /\ HasId(out.res)
        /\ Marketplace' = out.coll
        /\ nextId' = IdAfter(out.res)
        /\ req' = Request("POST", "marketplace", caller, [body |-> body])
        /\ res' = out.res
        /\ UNCHANGED <<Scheme, Job, TrainingContent, handlers>>

MarketplacePut ==
  \E caller \in Callers, id \in IdParams, body \in MarketBodies :
    LET out == MarketplaceUpdate(caller, id, body)
    IN  /\ Idle
        /\ HasId(out.res)
        /\ Marketplace' = out.coll
        /\ nextId' = IdAfter(out.res)
        /\ req' = Request("PUT", "marketplace", caller, [id |-> id, body |-> body])
        /\ res' = out.res
        /\ UNCHANGED <<Scheme, Job, TrainingContent, handlers>>

MarketplaceRemove ==
  \E caller \in Callers, id \in IdParams :
    LET out == MarketplaceDelete(caller, id)
    IN  /\ Idle
        /\ HasId(out.res)
        /\ Marketplace' = out.coll
        /\ nextId' = IdAfter(out.res)
        /\ req' = Request("DELETE", "marketplace", caller, [id |-> id])
        /\ res' = out.res
        /\ UNCHANGED <<Scheme, Job, TrainingContent, handlers>>

SchemesFind ==
  \E term \in SchemeSearchTerms, query \in SearchQueries :
    LET out == SchemesSearch(term, query)
    IN  /\ Idle
        /\ Scheme' = out.coll
        /\ req' = Request("SEARCH", "schemes", Anonymous,
                          [term |-> term, query |-> query])
        /\ res' = out.res
        /\ UNCHANGED <<Job, TrainingContent, Marketplace, nextId, handlers>>

MarketplaceFind ==
  \E term \in MarketplaceSearchTerms, query \in SearchQueries :
    LET out == MarketplaceSearch(term, query)
    IN  /\ Idle
        /\ Marketplace' = out.coll
        /\ req' = Request("SEARCH", "marketplace", Anonymous,
                          [term |-> term, query |-> query])
        /\ res' = out.res
        /\ UNCHANGED <<Scheme, Job, TrainingContent, nextId, handlers>>

Finish ==
  /\ ~Idle
  /\ req' = NoRequest
  /\ res' = NoResponse
  /\ UNCHANGED <<Scheme, Job, TrainingContent, Marketplace, nextId, handlers>>

Next ==
  \/ SchemesList
  \/ SchemesGet
  \/ SchemesPost
  \/ SchemesPut
  \/ SchemesRemove
  \/ JobsList
  \/ JobsGet
  \/ JobsPost
  \/ JobsPut
  \/ JobsRemove
  \/ TrainingList
  \/ TrainingGet
  \/ TrainingPost
  \/ TrainingPut
  \/ TrainingRemove
  \/ MarketplaceList
  \/ MarketplaceGet
  \/ MarketplacePost
  \/ MarketplacePut
  \/ MarketplaceRemove
  \/ SchemesFind
  \/ MarketplaceFind
  \/ Finish

Spec == Init /\ [][Next]_vars


(***************************************************************************)
(* Vocabulary of the properties.                                           *)
(***************************************************************************)
Resources == {"schemes", "jobs", "training", "marketplace"}

\* The collection behind a router.
CollectionOf(r) ==
  CASE r = "schemes"     -> Scheme
    [] r = "jobs"        -> Job
    [] r = "training"    -> TrainingContent
    [] r = "marketplace" -> Marketplace

Collections == <<Scheme, Job, TrainingContent, Marketplace>>

JoiSchemaOf(r) ==
  CASE r = "schemes"     -> schemeSchema
    [] r = "jobs"        -> jobSchema
    [] r = "training"    -> trainingSchema
    [] r = "marketplace" -> marketplaceSchema

ModelSchemaOf(r) ==
  CASE r = "schemes"     -> SchemeModelSchema
    [] r = "jobs"        -> JobModelSchema
    [] r = "training"    -> trainingContentSchema
    [] r = "marketplace" -> MarketplaceModelSchema

NotFoundMessageOf(r) ==
  CASE r = "schemes"     -> "Scheme not found"
    [] r = "jobs"        -> "Job not found"
    [] r = "training"    -> "Training content not found"
    [] r = "marketplace" -> "Marketplace entry not found"

\* The key of data under which a route returns one record, and a page.
RecordKeyOf(r) ==
  CASE r = "schemes"     -> "scheme"
    [] r = "jobs"        -> "job"
    [] r = "training"    -> "content"
    [] r = "marketplace" -> "entry"

ListKeyOf(r) ==
  CASE r = "schemes"     -> "schemes"
    [] r = "jobs"        -> "jobs"
    [] r = "training"    -> "trainingContent"
    [] r = "marketplace" -> "marketplace"

\* The roles the middleware of a mutating route lets through.
RolesAllowed(r) ==
  CASE r = "schemes"  -> {"admin"}
    [] r = "training" -> {"entrepreneur", "admin"}
    [] OTHER          -> {"user", "entrepreneur", "admin"}

\* The caller of the request is logged in and passes the route's role check.
PassesMiddleware(request) ==
  /\ request.caller \in Users
  /\ UserRole[request.caller] \in RolesAllowed(request.resource)

\* The fields of a stored or returned record that came from the payload.
ServerFields == {"_id", "createdAt", "createdBy", "created_by_name"}
PayloadOf(doc) == [k \in DOMAIN doc \ ServerFields |-> doc[k]]

\* A step in which the server handles a request.
Handles(methods) == Idle /\ req'.method \in methods


(***************************************************************************)
(* The handlers step by step.  The runtime handles requests concurrently:  *)
(* a handler runs until its next await of a storage operation, and between *)
(* two awaits the other handlers in flight may run.  The mutating routes   *)
(* of the three routers that reach their model await twice: update and     *)
(* delete await findById and then findByIdAndUpdate / findByIdAndDelete;   *)
(* create awaits save and then findById.  The response follows the second  *)
(* await without a further await.                                          *)
(***************************************************************************)
InterleavedResources == {"schemes", "jobs", "marketplace"}
InterleavedCallers == {"bob", "carol"}

BodiesOf(r) ==
  CASE r = "schemes"     -> {SchemeA, SchemeB}
    [] r = "jobs"        -> {JobA, JobB}
    [] r = "marketplace" -> {MarketA, MarketUpperEmail}

\* The words of a router's messages.
NounOf(r) ==
  CASE r = "schemes"     -> "Scheme"
    [] r = "jobs"        -> "Job"
    [] r = "marketplace" -> "Marketplace entry"

OwnOf(r) ==
  CASE r = "schemes"     -> "schemes"
    [] r = "jobs"        -> "jobs"
    [] r = "marketplace" -> "marketplace entries"

\* The requests that start a handler.
InterleavedRequests ==
  UNION {
    {Request("POST", r, c, [body |-> b]) : c \in InterleavedCallers, b \in BodiesOf(r)}
    \cup {Request("PUT", r, c, [id |-> i, body |-> b]) :
            c \in InterleavedCallers, i \in IdParams, b \in BodiesOf(r)}
    \cup {Request("DELETE", r, c, [id |-> i]) : c \in InterleavedCallers, i \in IdParams}
    : r \in InterleavedResources }

\* The collection of router r becomes coll; the others stay.
Stores(r, coll) ==
  /\ Scheme' = IF r = "schemes" THEN coll ELSE Scheme
  /\ Job' = IF r = "jobs" THEN coll ELSE Job
  /\ Marketplace' = IF r = "marketplace" THEN coll ELSE Marketplace
  /\ UNCHANGED TrainingContent

Becomes(s, handler) == handlers' = [handlers EXCEPT ![s] = handler]

\* Up to the first await: the middleware and, with a body, its validation.
Begin(s) ==
  \E request \in InterleavedRequests :
    LET r  == request.resource
        v  == JoiValidate(JoiSchemaOf(r), request.body)
        to == IF request.method = "POST" THEN "save" ELSE "find"
    IN  /\ handlers[s].pc = "idle"
        /\ Becomes(s,
             IF ~PassesMiddleware(request)
               THEN Handler("done", request, InsufficientRole)
             ELSE IF request.method # "DELETE" /\ v.error
               THEN Handler("done", request, ValidationError(v.details))
             ELSE Handler(to, request, NoResponse))
        /\ UNCHANGED <<Scheme, Job, TrainingContent, Marketplace, nextId, req, res>>

\* await Model.findById(id) of update and delete, and the tests on it.  The
\* handler keeps the document it read (existingJob, ...) beside its request.
FindStep(s) ==
  LET h        == handlers[s]
      r        == h.req.resource
      existing == FindById(CollectionOf(r), h.req.id)
      verb     == IF h.req.method = "PUT" THEN "update" ELSE "delete"
  IN  /\ h.pc = "find"
      /\ Becomes(s,
           IF existing = Null
             THEN Handler("done", h.req, NotFound(NotFoundMessageOf(r)))
           ELSE IF r # "schemes" /\ JobsNotOwner(existing, h.req.caller)
             THEN Handler("done", h.req,
                    Forbidden("You can only " \o verb \o " your own " \o OwnOf(r)))
           ELSE Handler("write", h.req @@ [existing |-> existing], NoResponse))
      /\ UNCHANGED <<Scheme, Job, TrainingContent, Marketplace, nextId, req, res>>

\* await Model.findByIdAndUpdate(id, value, { new: true }) or await
\* Model.findByIdAndDelete(id), and the response.  The update reads
\* updated.toObject(): on null that throws and the catch block answers; the
\* delete does not look at what findByIdAndDelete returns.
WriteStep(s) ==
  LET h       == handlers[s]
      r       == h.req.resource
      coll    == CollectionOf(r)
      after   == IF h.req.method = "PUT"
                   THEN FindByIdAndUpdate(ModelSchemaOf(r), coll, h.req.id, h.req.body)
                   ELSE FindByIdAndDelete(coll, h.req.id)
      updated == FindById(after, h.req.id)
  IN  /\ h.pc = "write"
      /\ Stores(r, after)
      /\ Becomes(s,
           IF h.req.method = "DELETE"
             THEN Handler("done", h.req, Ok(NounOf(r) \o " deleted successfully", Null))
           ELSE IF updated = Null THEN Handler("done", h.req, InternalError)
           ELSE Handler("done", h.req,
                  Ok(NounOf(r) \o " updated successfully",
                     (RecordKeyOf(r) :> Enriched(updated)))))
      /\ UNCHANGED <<nextId, req, res>>

\* await document.save() of create; the handler keeps the new _id.
SaveStep(s) ==
  LET h   == handlers[s]
      r   == h.req.resource
      doc == NewDocument(ModelSchemaOf(r), JobsNewFields(h.req.body, h.req.caller))
  IN  /\ h.pc = "save"
      /\ nextId <= MaxId
      /\ IF SaveRejects(ModelSchemaOf(r), doc)
           THEN /\ Becomes(s, Handler("done", h.req, InternalError))
                /\ UNCHANGED <<Scheme, Job, TrainingContent, Marketplace, nextId>>
           ELSE /\ Stores(r, Saved(CollectionOf(r), doc, nextId))
                /\ nextId' = nextId + 1
                /\ Becomes(s, Handler("reread", h.req @@ [id |-> nextId], NoResponse))
      /\ UNCHANGED <<req, res>>

\* await Model.findById(document._id) of create, and the response, which
\* reads created.toObject(): on null that throws and the catch block answers.
RereadStep(s) ==
  LET h       == handlers[s]
      r       == h.req.resource
      created == FindById(CollectionOf(r), h.req.id)
  IN  /\ h.pc = "reread"
      /\ Becomes(s,
           IF created = Null THEN Handler("done", h.req, InternalError)
           ELSE Handler("done", h.req,
                  Created(NounOf(r) \o " created successfully",
                          (RecordKeyOf(r) :> Enriched(created)))))
      /\ UNCHANGED <<Scheme, Job, TrainingContent, Marketplace, nextId, req, res>>

\* The response is sent and the handler is gone.
Close(s) ==
  /\ handlers[s].pc = "done"
  /\ Becomes(s, NoHandler)
  /\ UNCHANGED <<Scheme, Job, TrainingContent, Marketplace, nextId, req, res>>

InterleavedInit == Init /\ TrainingContent = NoDocuments

InterleavedNext ==
  \E s \in Slots :
    \/ Begin(s)
    \/ FindStep(s)
    \/ WriteStep(s)
    \/ SaveStep(s)
    \/ RereadStep(s)
    \/ Close(s)

Interleaved == InterleavedInit /\ [][InterleavedNext]_vars


(***************************************************************************)
(* C1.  On jobs, training and marketplace, an Update or Delete of an       *)
(* existing record by a logged-in caller who is neither its creator nor    *)
(* an admin is answered 403 and leaves every collection as it was.  The    *)
(* claim is taken where the request reaches the ownership test: an Update  *)
(* carries a payload the route's schema accepts.                           *)
(***************************************************************************)
\* The payload of an Update passes the schema of its route.
PayloadAccepted(request) ==
  request.method = "PUT" =>
    ~JoiValidate(JoiSchemaOf(request.resource), request.body).error

NonOwnerRequest ==
  /\ Handles({"PUT", "DELETE"})
  /\ req'.resource \in {"jobs", "training", "marketplace"}
  /\ req'.caller \in Users
  /\ PayloadAccepted(req')
  /\ req'.id \in DOMAIN CollectionOf(req'.resource)
  /\ CollectionOf(req'.resource)[req'.id].createdBy # req'.caller
  /\ UserRole[req'.caller] # "admin"

C1_NonOwnerForbidden ==
  [][NonOwnerRequest => (res'.status = 403 /\ Collections' = Collections)]_vars

(***************************************************************************)
(* C2.  On every resource, an Update or Delete of an id that no stored     *)
(* record has is answered 404 "<Resource> not found".  The claim is taken  *)
(* where the request reaches the lookup: the caller passes the route's     *)
(* middleware and an Update carries a payload the route's schema accepts.  *)
(***************************************************************************)
MissingIdRequest ==
  /\ Handles({"PUT", "DELETE"})
  /\ PassesMiddleware(req')
  /\ PayloadAccepted(req')
  /\ req'.id \notin DOMAIN CollectionOf(req'.resource)

C2_MissingIdNotFound ==
  [][MissingIdRequest =>
       (res'.status = 404 /\ res'.message = NotFoundMessageOf(req'.resource))]_vars

(***************************************************************************)
(* C3.  On every resource, a Create or Update whose payload lacks a        *)
(* required field or breaks a length or format bound of the record (of    *)
(* the route's schema or of the stored model) is answered 400              *)
(* "Validation error" with an error entry, and no collection changes.      *)
(***************************************************************************)
BreaksRecordRules(r, body) ==
  \/ JoiDetails(JoiSchemaOf(r), body, "") # << >>
  \/ ModelInvalidPaths(ModelSchemaOf(r), NewDocument(ModelSchemaOf(r), body)) # {}

InvalidPayloadRequest ==
  /\ Handles({"POST", "PUT"})
  /\ PassesMiddleware(req')
  /\ BreaksRecordRules(req'.resource, req'.body)

C3_InvalidPayloadRejected ==
  [][InvalidPayloadRequest =>
       /\ res'.status = 400
       /\ res'.message = "Validation error"
       /\ res'.errors # << >>
       /\ Collections' = Collections]_vars


(***************************************************************************)
(* C4.  On every resource, a Create whose payload the route's schema       *)
(* accepts is answered 201, and Get-by-id of the created id then returns   *)
(* the record with exactly the submitted payload fields.                   *)
(***************************************************************************)
GetByIdOf(r, id) ==
  CASE r = "schemes"     -> SchemesGetById(id)
    [] r = "jobs"        -> JobsGetById(id)
    [] r = "training"    -> TrainingGetById(id)
    [] r = "marketplace" -> MarketplaceGetById(id)

AcceptedCreate ==
  /\ Handles({"POST"})
  /\ PassesMiddleware(req')
  /\ ~JoiValidate(JoiSchemaOf(req'.resource), req'.body).error

\* Get-by-id of id on router r answers 200 with a record of this payload.
GetReturns(r, id, payload) ==
  LET got == GetByIdOf(r, id).res
  IN  /\ got.status = 200
      /\ PayloadOf(got.data[RecordKeyOf(r)]) = payload

C4_CreateThenGet ==
  [][AcceptedCreate =>
       /\ res'.status = 201
       /\ \A r \in Resources, id \in 1..MaxId :
            (r = req'.resource /\ id = nextId) =>
              \E b \in {req'.body} : GetReturns(r, id, b)']_vars

(***************************************************************************)
(* C5.  Every List answers with records that each satisfy every filter     *)
(* parameter given (exact match on language and type, case-insensitive     *)
(* pattern match on category and location), and with pagination.totalItems *)
(* equal to the number of stored records satisfying them, whatever page    *)
(* and limit are.                                                          *)
(***************************************************************************)
FilterKeys == {"language", "type", "category", "location"}

MeetsQuery(doc, query) ==
  \A k \in DOMAIN query \cap FilterKeys :
    IF k \in {"category", "location"} THEN RegexMatchI(query[k], doc[k])
    ELSE doc[k] = query[k]

Matching(r, query) ==
  {id \in DOMAIN CollectionOf(r) : MeetsQuery(CollectionOf(r)[id], query)}

ListAnswered == ~Idle /\ req.method = "LIST"

C5_ListFiltered ==
  ListAnswered =>
    /\ res.status = 200
    /\ LET items == res.data[ListKeyOf(req.resource)]
       IN  \A i \in 1..Len(items) : MeetsQuery(items[i], req.query)
    /\ res.data.pagination.totalItems = Cardinality(Matching(req.resource, req.query))

(***************************************************************************)
(* C6.  Every List response to a positive page and limit carries           *)
(* totalPages = ceil(totalItems / itemsPerPage) and holds the matching     *)
(* records at positions (page-1)*limit                                     *)
(* up to limit further, newest first; a page past the last one is empty    *)
(* and carries the totals of an in-range page.                             *)
(***************************************************************************)
\* The ids of the matching records, newest first.
RECURSIVE NewestFirst(_, _)
NewestFirst(coll, ids) ==
  IF ids = {} THEN << >>
  ELSE LET id == CHOOSE x \in ids : \A y \in ids : coll[y].createdAt <= coll[x].createdAt
       IN  <<id>> \o NewestFirst(coll, ids \ {id})

C6_Pagination ==
  (ListAnswered /\ PageOf(req.query) >= 1) =>
    /\ res.status = 200
    /\ LET meta    == res.data.pagination
           items   == res.data[ListKeyOf(req.resource)]
           page    == PageOf(req.query)
           limit   == LimitOf(req.query)
           ordered == NewestFirst(CollectionOf(req.resource),
                                  Matching(req.resource, req.query))
           first   == (page - 1) * limit
       IN  /\ meta.currentPage = page /\ meta.itemsPerPage = limit
           /\ meta.totalItems = Len(ordered)
           /\ meta.totalPages * meta.itemsPerPage >= meta.totalItems
           /\ (meta.totalPages - 1) * meta.itemsPerPage < meta.totalItems
              \/ (meta.totalPages = 0 /\ meta.totalItems = 0)
           /\ \A i \in 1..Len(items) :
                first + i <= Len(ordered) /\ items[i]._id = ordered[first + i]
           /\ \A j \in 1..limit :
                first + j <= Len(ordered) => j <= Len(items)
           /\ Len(items) <= limit
           /\ page > meta.totalPages => items = << >>

(***************************************************************************)
(* C9.  A training Create by an entrepreneur with a valid title, type, url *)
(* and language and no description is answered 201, stores a training      *)
(* record owned by the caller, and returns it with created_by_name equal   *)
(* to the caller's display name.                                           *)
(***************************************************************************)
EntrepreneurCreate ==
  /\ Handles({"POST"})
  /\ req'.resource = "training"
  /\ req'.caller \in Users
  /\ UserRole[req'.caller] = "entrepreneur"
  /\ "description" \notin DOMAIN req'.body
  /\ ~JoiValidate(trainingSchema, req'.body).error

C9_TrainingCreate ==
  [][EntrepreneurCreate =>
       /\ res'.status = 201
       /\ \E id \in DOMAIN TrainingContent' \ DOMAIN TrainingContent :
            TrainingContent'[id].createdBy = req'.caller
       /\ res'.data.content.created_by_name = UserName[req'.caller]]_vars


(***************************************************************************)
(* C7.  Every stored record has one createdBy, a user; a record that       *)
(* appears was created by a Create of that user, and no request of any     *)
(* caller changes the createdBy of a record that stays.                    *)
(***************************************************************************)
HasOneOwner ==
  \A r \in Resources : \A id \in DOMAIN CollectionOf(r) :
    /\ "createdBy" \in DOMAIN CollectionOf(r)[id]
    /\ CollectionOf(r)[id].createdBy \in Users

OwnerKept ==
  \A r \in Resources : \A id \in DOMAIN CollectionOf(r)' :
    IF id \in DOMAIN CollectionOf(r)
      THEN CollectionOf(r)'[id].createdBy = CollectionOf(r)[id].createdBy
      ELSE /\ req'.method = "POST"
           /\ req'.resource = r
           /\ CollectionOf(r)'[id].createdBy = req'.caller

C7_CreatedByFixed == []HasOneOwner /\ [][OwnerKept]_vars

\* An Update by someone other than the creator went through (an admin's),
\* with a payload that differs from the stored one, and the record is still
\* the creator's.
C7_Witness ==
  /\ ~Idle
  /\ req.method = "PUT"
  /\ res.status = 200
  /\ CollectionOf(req.resource)[req.id].createdBy # req.caller
  /\ PayloadOf(CollectionOf(req.resource)[req.id]) = req.body

(***************************************************************************)
(* C8.  A record id goes from Exists to Deleted and never back: an id      *)
(* comes to exist only by a successful Create, which takes a fresh id; it  *)
(* ceases to exist only by a successful Delete of that id, which does      *)
(* remove it; an Update leaves the ids of every collection as they are;    *)
(* and an id handed out earlier that no longer exists never exists again.  *)
(***************************************************************************)
Exists(r, id) == id \in DOMAIN CollectionOf(r)

Lifecycle ==
  \A r \in Resources : \A id \in 1..MaxId :
    /\ (~Exists(r, id) /\ Exists(r, id)') =>
          /\ req'.method = "POST" /\ req'.resource = r /\ res'.status = 201
          /\ id = nextId
    /\ (Exists(r, id) /\ ~Exists(r, id)') =>
          /\ req'.method = "DELETE" /\ req'.resource = r /\ req'.id = id
          /\ res'.status = 200
    /\ (Handles({"DELETE"}) /\ req'.resource = r /\ req'.id = id
          /\ res'.status = 200) => ~Exists(r, id)'
    /\ (Handles({"PUT"}) /\ Exists(r, id)) => Exists(r, id)'
    /\ (id < nextId /\ ~Exists(r, id)) => ~Exists(r, id)'

C8_Lifecycle == [][Lifecycle]_vars

\* An Update of a deleted id (handed out earlier, now in no collection) by
\* an admin with an accepted payload was answered 404 and created nothing.
C8_Witness ==
  /\ ~Idle
  /\ req.method = "PUT"
  /\ req.caller \in Users
  /\ UserRole[req.caller] = "admin"
  /\ req.resource # "training"
  /\ PayloadAccepted(req)
  /\ req.id < nextId
  /\ \A r \in Resources : ~Exists(r, req.id)
  /\ res.status = 404

(***************************************************************************)
(* C10.  On schemes, Create, Update and Delete go through exactly for      *)
(* admins.  A caller without the admin role is refused (403, or 401        *)
(* without a login) and the collection stays as it was, even for a scheme  *)
(* the caller created; an admin is never refused, deletes any existing     *)
(* scheme and replaces the fields of any existing scheme with an accepted  *)
(* payload, whoever created it.                                            *)
(***************************************************************************)
SchemeWrite == Handles({"POST", "PUT", "DELETE"}) /\ req'.resource = "schemes"

IsAdmin(caller) == caller \in Users /\ UserRole[caller] = "admin"

SchemeWriteGate ==
  SchemeWrite =>
    IF IsAdmin(req'.caller)
      THEN /\ res'.status \notin {401, 403}
           /\ (req'.method = "DELETE" /\ req'.id \in DOMAIN Scheme) =>
                (res'.status = 200 /\ req'.id \notin DOMAIN Scheme')
           /\ (req'.method = "PUT" /\ req'.id \in DOMAIN Scheme
                 /\ PayloadAccepted(req')) =>
                (res'.status = 200 /\ PayloadOf(Scheme'[req'.id]) = req'.body)
      ELSE /\ res'.status = (IF req'.caller = Anonymous THEN 401 ELSE 403)
           /\ Scheme' = Scheme

C10_SchemesAdminOnly == [][SchemeWriteGate]_vars

\* An admin's Update of a scheme another user created went through.
C10_Witness ==
  /\ ~Idle
  /\ req.resource = "schemes"
  /\ req.method = "PUT"
  /\ res.status = 200
  /\ Scheme[req.id].createdBy # req.caller
  /\ PayloadOf(Scheme[req.id]) = req.body


(***************************************************************************)
(* C11.  A Search on schemes or marketplace for a positive page answers    *)
(* 200 with at most limit matching records, those at offset (page-1)*limit *)
(* of the matching records newest first, and with pagination metadata      *)
(* currentPage, totalPages, totalItems and itemsPerPage, totalItems being  *)
(* the number of stored records that match the search.                     *)
(***************************************************************************)
SearchAnswered == ~Idle /\ req.method = "SEARCH"

SearchFieldsOf(r) ==
  IF r = "schemes" THEN SchemeSearchFields ELSE MarketplaceSearchFields

\* The ids of the stored records the search of the request matches.
SearchMatching ==
  {id \in DOMAIN CollectionOf(req.resource) :
     SearchMatches(CollectionOf(req.resource)[id], SearchFieldsOf(req.resource),
                   req.term, req.query)}

C11_SearchPagination ==
  (SearchAnswered /\ PageOf(req.query) >= 1) =>
    /\ res.status = 200
    /\ LET items   == res.data.results
           limit   == LimitOf(req.query)
           first   == (PageOf(req.query) - 1) * limit
           ordered == NewestFirst(CollectionOf(req.resource), SearchMatching)
       IN  /\ Len(items) <= limit
           /\ \A i \in 1..Len(items) :
                first + i <= Len(ordered) /\ items[i]._id = ordered[first + i]
           /\ "pagination" \in DOMAIN res.data
           /\ res.data.pagination.currentPage = PageOf(req.query)
           /\ res.data.pagination.itemsPerPage = limit
           /\ res.data.pagination.totalItems = Len(ordered)
           /\ res.data.pagination.totalPages = Ceil(Len(ordered), limit)

(***************************************************************************)
(* C12.  A scheme Search for a term returns only records in which the term *)
(* occurs, letter case aside, as a substring of title, description or      *)
(* category and, when language is given, whose language equals it.         *)
(***************************************************************************)
\* term occurs in s as a substring, ignoring case.
OccursIn(term, s) ==
  \E k \in 0..(Len(s) - Len(term)) :
    ToLower(SubSeq(s, k + 1, k + Len(term))) = ToLower(term)

C12_SearchSubstring ==
  (SearchAnswered /\ req.resource = "schemes") =>
    /\ res.status = 200
    /\ \A i \in 1..Len(res.data.results) :
         LET doc == res.data.results[i]
         IN  /\ \E f \in SchemeSearchFields : OccursIn(req.term, doc[f])
             /\ Given(req.query, "language") => doc.language = req.query.language


(***************************************************************************)
(* C13.  On every resource, a Get-by-id without a login, for any id value, *)
(* answers 200 with the stored record of that id, enriched with            *)
(* created_by_name, when a record has that id, and 404 "<Resource> not     *)
(* found" when none has; it never answers 500.                             *)
(***************************************************************************)
GetAnswered == ~Idle /\ req.method = "GET"

C13_GetByIdAnswers ==
  GetAnswered =>
    IF req.id \in DOMAIN CollectionOf(req.resource)
      THEN /\ res.status = 200
           /\ LET got    == res.data[RecordKeyOf(req.resource)]
                  stored == CollectionOf(req.resource)[req.id]
              IN  /\ PayloadOf(got) = PayloadOf(stored)
                  /\ got._id = req.id
                  /\ got.created_by_name = UserName[stored.createdBy]
      ELSE /\ res.status = 404
           /\ res.message = NotFoundMessageOf(req.resource)


(***************************************************************************)
(* C14.  With storage available, as it always is here, a List on any of    *)
(* the four resources answers 200 with a record page and pagination        *)
(* metadata, whatever filter, page and limit the caller sends.             *)
(***************************************************************************)
C14_ListNeverFails ==
  ListAnswered =>
    /\ res.status = 200
    /\ res.data # Null
    /\ {ListKeyOf(req.resource), "pagination"} \subseteq DOMAIN res.data


(***************************************************************************)
(* C15.  A Create or Update whose payload fails the route's validation in  *)
(* k fields is answered 400 with k error messages, one for each failing    *)
(* field in the order of the fields, and no collection changes.            *)
(***************************************************************************)
FaultyPayloadRequest ==
  /\ Handles({"POST", "PUT"})
  /\ PassesMiddleware(req')
  /\ JoiDetails(JoiSchemaOf(req'.resource), req'.body, "") # << >>

C15_OneMessagePerField ==
  [][FaultyPayloadRequest =>
       /\ res'.status = 400
       /\ res'.errors = JoiDetails(JoiSchemaOf(req'.resource), req'.body, "")
       /\ Collections' = Collections]_vars


(***************************************************************************)
(* Vocabulary of the properties of handlers in flight.                     *)
(***************************************************************************)
\* Handler s answers in this step, having awaited its second storage
\* operation, for a request of one of the methods.
Answers(s, methods) ==
  /\ handlers[s].pc \in {"write", "reread"}
  /\ handlers[s].req.method \in methods
  /\ handlers'[s].pc = "done"

\* The record handler s works on exists.
TargetExists(s) ==
  handlers[s].req.id \in DOMAIN CollectionOf(handlers[s].req.resource)

(***************************************************************************)
(* C16.  Whatever the interleaving of Deletes of one record, a Delete      *)
(* answers 200 "deleted successfully" only when its own removal step took  *)
(* the record out of the collection; a Delete whose removal step finds the *)
(* record already gone answers 404 not-found.                              *)
(***************************************************************************)
C16_OneDeleteSucceeds ==
  [][\A s \in Slots :
       Answers(s, {"DELETE"}) =>
         IF TargetExists(s)
           THEN /\ handlers'[s].res.status = 200
                /\ ~TargetExists(s)'
           ELSE /\ handlers'[s].res.status = 404
                /\ handlers'[s].res.message
                     = NotFoundMessageOf(handlers[s].req.resource)]_vars

(***************************************************************************)
(* C17.  A Create, Update or Delete is one atomic storage operation: while *)
(* a handler is between its existence/ownership read and its write, or     *)
(* between a Create's write and the read that builds its response, no      *)
(* step of another handler changes a collection.                           *)
(***************************************************************************)
C17_AtomicRequest ==
  [][\A s \in Slots :
       (handlers[s].pc \in {"write", "reread"} /\ handlers'[s] = handlers[s])
         => Collections' = Collections]_vars

(***************************************************************************)
(* C18.  Concurrent Updates of one existing record are last-writer-wins:   *)
(* an Update whose write finds the record answers 200, and right after the *)
(* write the payload fields of the record are the validated payload of     *)
(* that Update as the model's setters store it (contact.email in lower     *)
(* case), with no field of an earlier write left.                          *)
(***************************************************************************)
\* The payload of the request of handler s as the model stores it.
StoredPayload(s) ==
  ApplySetters(ModelSchemaOf(handlers[s].req.resource), handlers[s].req.body, 1)

C19_VanishedIsNotFound ==
  [][\A s \in Slots :
       Answers(s, {"PUT", "POST"}) =>
         LET h == handlers'[s]
         IN  \/ /\ h.res.status = (IF h.req.method = "POST" THEN 201 ELSE 200)
                /\ h.res.data # Null
                /\ h.res.data[RecordKeyOf(h.req.resource)]._id = h.req.id
             \/ /\ h.res.status = 404
                /\ h.res.message = NotFoundMessageOf(h.req.resource)]_vars

=============================================================================
